---- MODULE Spec2Model ----
(***************************************************************************)
(* Clients of the verifiable PIR library:                                  *)
(*   - PredicateAPIR (lib/client/predicate_apir.go): FSS keys carrying an  *)
(*     information-theoretic MAC, reconstruction in F_p on uint32;         *)
(*   - ITSingleGF (information-theoretic single-bit client, GF(2^n)).      *)
(* Machine integers keep their width: uint32 is scaled to UintBits bits,   *)
(* uint64 to twice that, and ModP is the Mersenne prime one bit below the  *)
(* word size, as 2^31 - 1 is for uint32.                                   *)
(***************************************************************************)
EXTENDS Integers, Sequences, FiniteSets, TLC

VARIABLES
    client,     \* the client this process constructed: "PredicateAPIR" or "ITSingleGF"
    state,      \* PredicateAPIR.state: NoState (nil) or [alphas, a]
    query,      \* what the last Query returned: NoQuery or [kind, keys, a]
    truth,      \* what the database holds for the query: NoTruth or [cnt, sum]
    answers,    \* answer vectors handed to Reconstruct: NoAnswers or <<a0, a1>>
    origin,     \* where answers come from: "none", "honest", "flipped", "forged", "stale"
    flip,       \* the bit flipped in server 0's answer: NoFlip or [entry, bit]
    ret,        \* what the last Reconstruct returned: NoRet or [val, err]
    exited,     \* the process has ended (log.Fatal or an unrecovered panic)
    pending,    \* Query calls since the last Reconstruct returned (capped)
    discarded,  \* state of a pending query overwritten by the latest Query, or NoState
    rebalanced, \* ITSingleGF.rebalanced
    db,         \* the servers' single-bit database, row-major: NoDB until the
                \* servers have loaded it, then DBLength bits
    gfState,    \* ITSingleGF.state: NoGFState (nil) or [ix, iy, alpha, dbLength]
    call,       \* the last ITSingleGF.Query: NoCall or [index, numServers, alpha],
                \* its arguments and the alpha it sampled
    vectors,    \* the query vectors the last ITSingleGF.Query returned, one per server
    gfAnswers,  \* answers handed to ITSingleGF.Reconstruct, one vector per server
    gfOrigin,   \* where gfAnswers come from: "none", "honest", "forged", "stale"
    gfRet,      \* what the last ITSingleGF call returned: NoRet or [val, err]
    gfDiscarded, \* ITSingleGF state of a pending query overwritten by the latest Query
    conns,      \* len(m.connections)
    queries,    \* the number of queries the client returned to GetKey
    gor,        \* the goroutine started with j: "idle", "spawned", "replied",
                \* "done", "failed" (log.Fatalf) or "panicked"
    resCh,      \* the channel: the j of each reply sent on it, in order of sending
    handed,     \* the assembled answers: the j of the reply at each position
    main,       \* where GetKey is: "idle", "dispatch", "wait", "drained", "returned"
    requests,   \* queryServer calls made so far
    result,     \* what GetKey returned: "none", "key" or "error"
    padIn,      \* the arguments of the last PadBlock: [block, blockLen]
    padOut,     \* what PadBlock returned, NoBlock before
    unpadOut,   \* what UnPadBlock returned: NoRet or [val, err]
    numKeys,    \* len(keys) loaded by GenerateRealKeyDB
    dbRebalanced,  \* the rebalanced argument of GenerateRealKeyDB
    elementLength, \* the elementLength argument (byteLengths in GenerateRealKeyBytes)
    numBlocks,  \* the length of the hash table, -1 before it is decided
    ht,         \* the hash table: bucket -> bytes
    tableBlockLen, \* blockLen of the database: the entries of a block, 0 before it is computed
    embedded,   \* the buckets embedded so far
    written,    \* the entries set so far: [bucket, entry]
    genErr,     \* "none" or the panic that ended the generation
    numRows,    \* the NumRows of the database created, 0 before
    numColumns, \* the NumColumns of the database created, 0 before
    prfKey,     \* the fixed key of the PRG of the dpf
    dpfCall,    \* the arguments of Gen: NoDPFCall or [alpha, beta, logN]
    dpfKeys,    \* what Gen returned: NoKeys or <<kA, kB>>
    dpfNext,    \* the i the loop of TestEval evaluates next
    evalSums,   \* the sums computed so far: [i, sum]
    testFailed, \* test.Fail() was called
    dpfErr,     \* "none" or the panic of Gen
    slotIn,     \* the entries and the alpha of the slot reconstructed last: NoSlot or [a, b, alpha]
    slotOut,    \* what lines 136-142 computed for it: NoSlotOut or [data, tag]
    loaded, \* the keys each server loaded, in the order it loaded them
    tableLenIn, \* the tableLen the servers pass to makeHashTable, 0 before the keys are loaded
    tables, \* the hash table each server built, NoTable before
    published, \* the database.Info each server publishes, one for every connection
    infoRet \* what GetDBInfos returned: NoInfoRet or [infos, err]

predVars == <<state, query, truth, answers, origin, flip, ret, discarded>>
gfVars == <<rebalanced, db, gfState, call, vectors, gfAnswers, gfOrigin, gfRet, gfDiscarded>>
dispVars == <<conns, queries, gor, resCh, handed, main, requests, result>>
padVars == <<padIn, padOut, unpadOut>>
clientVars == <<client, predVars, gfVars, exited, pending>>
genVars == <<numKeys, dbRebalanced, elementLength, numBlocks, ht, tableBlockLen,
             embedded, written, genErr, numRows, numColumns>>
dpfVars == <<prfKey, dpfCall, dpfKeys, dpfNext, evalSums, testFailed, dpfErr>>
arithVars == <<slotIn, slotOut>>
sortVars == <<loaded, tableLenIn, tables>>
infoVars == <<published, infoRet>>
extVars == <<dispVars, padVars, genVars, dpfVars, arithVars, sortVars, infoVars>>
\* what the Manager leaves alone, and what the padding leaves alone
notDisp == <<padVars, genVars, dpfVars, arithVars, sortVars, infoVars>>
notPad == <<clientVars, dispVars, genVars, dpfVars, arithVars, sortVars, infoVars>>
notGen == <<clientVars, dispVars, padVars, dpfVars, arithVars, sortVars, infoVars>>
notDPF == <<clientVars, dispVars, padVars, genVars, arithVars, sortVars, infoVars>>
notArith == <<clientVars, dispVars, padVars, genVars, dpfVars, sortVars, infoVars>>
notSort == <<clientVars, dispVars, padVars, genVars, dpfVars, arithVars, infoVars>>
notInfo == <<clientVars, dispVars, padVars, genVars, dpfVars, arithVars, sortVars>>
vars == <<clientVars, extVars>>

----------------------------------------------------------------------------
(* Scaled machine parameters *)

\* width of uint32, scaled
UintBits == 3
\* field.ModP, scaled: 2^(UintBits-1) - 1
ModP == 3
\* field.ConcurrentExecutions, scaled
ConcurrentExecutions == 2
\* largest numServers a caller passes
MaxServers == 2
\* constants.DBLength, scaled: the smallest square with a square root above 1
DBLength == 4
\* the bits of a field.Element of GF(2^128), scaled
GFBits == 2
\* Query calls counted in pending
MaxPending == 2

RECURSIVE Pow2(_)
Pow2(n) == IF n = 0 THEN 1 ELSE 2 * Pow2(n - 1)

\* uint32(x): truncation to the word size
U32(x) == x % Pow2(UintBits)
\* uint64(x)
U64(x) == x % Pow2(2 * UintBits)

\* field elements: integers in [0, p)
Field == 0 .. (ModP - 1)
\* every value a uint32 can hold
Word == 0 .. (Pow2(UintBits) - 1)

NoState == [nil |-> TRUE, alphas |-> <<>>, a |-> <<>>]
NoQuery == [kind |-> "none", keys |-> 0, a |-> <<>>]
NoTruth == [cnt |-> -1, sum |-> -1]
NoAnswers == <<>>
NoFlip == [entry |-> -1, bit |-> -1]
NoRet == [val |-> 0, err |-> "none"]
NoGFState == [nil |-> TRUE, ix |-> 0, iy |-> 0, alpha |-> 0, dbLength |-> 0]
NoCall == [index |-> 0, numServers |-> -1, alpha |-> 0]
NoDB == <<>>

\* Go's 0-based indexing of a slice
At(v, i) == v[i + 1]

\* all vectors of length n over S
Vectors(S, n) == [1 .. n -> S]

----------------------------------------------------------------------------
(* PredicateAPIR.Reconstruct *)

Value(v) == [val |-> v, err |-> "nil"]
Failure(e) == [val |-> 0, err |-> e]

PanicNil == "panic: nil pointer dereference"
PanicIndex == "panic: index out of range"
PanicDivide == "panic: integer divide by zero"
PanicRange == "panic: slice length or index out of range"
Fatal == "fatal: invalid query inputs"

\* the tag loop with the bound of the loop one too low: the last tag unchecked
RECURSIVE CheckTagsSkipLast(_, _, _, _)
CheckTagsSkipLast(i, data, st, ans) ==
    IF i >= ConcurrentExecutions - 1 THEN Value(data)
    ELSE IF st.nil THEN Failure(PanicNil)
    ELSE IF i + 1 >= Len(ans[1]) \/ i + 1 >= Len(ans[2]) THEN Failure(PanicIndex)
    ELSE LET tmp == U64(U64(data) * U64(At(st.alphas, i))) % U64(ModP)
             tag == U32(tmp)
             reconstructedTag == U32(At(ans[1], i + 1) + At(ans[2], i + 1)) % ModP
         IN  IF tag # reconstructedTag THEN Failure("REJECT")
             ELSE CheckTagsSkipLast(i + 1, data, st, ans)

\* the non-AVG tag loop, lines 140-147, from iteration i on
RECURSIVE CheckTags(_, _, _, _)
CheckTags(i, data, st, ans) ==
    IF i >= ConcurrentExecutions THEN Value(data)
    ELSE IF st.nil THEN Failure(PanicNil)
    ELSE IF i + 1 >= Len(ans[1]) \/ i + 1 >= Len(ans[2]) THEN Failure(PanicIndex)
    ELSE LET tmp == U64(U64(data) * U64(At(st.alphas, i))) % U64(ModP)
             tag == U32(tmp)
             reconstructedTag == U32(At(ans[1], i + 1) + At(ans[2], i + 1)) % ModP
         IN  IF tag # reconstructedTag THEN Failure("REJECT")
             ELSE CheckTags(i + 1, data, st, ans)

\* the AVG tag loop without the check of the sum tags
RECURSIVE CheckTagsAVGCountOnly(_, _, _, _, _, _, _, _)
CheckTagsAVGCountOnly(i, dataCount, sumCount, st, countFirst, countSecond, sumFirst, sumSecond) ==
    IF i >= ConcurrentExecutions THEN "pass"
    ELSE IF st.nil THEN PanicNil
    ELSE IF i + 1 >= Len(countFirst) \/ i + 1 >= Len(countSecond) THEN PanicIndex
    ELSE LET tmpCount == U64(U64(dataCount) * U64(At(st.alphas, i))) % U64(ModP)
             tagCount == U32(tmpCount)
             reconstructedTagCount ==
                 U32(At(countFirst, i + 1) + At(countSecond, i + 1)) % ModP
         IN  IF tagCount # reconstructedTagCount THEN "REJECT count"
             ELSE CheckTagsAVGCountOnly(i + 1, dataCount, sumCount, st,
                                        countFirst, countSecond, sumFirst, sumSecond)

\* the AVG tag loop, lines 116-130, from iteration i on; "pass" when all tags pass
RECURSIVE CheckTagsAVG(_, _, _, _, _, _, _, _)
CheckTagsAVG(i, dataCount, sumCount, st, countFirst, countSecond, sumFirst, sumSecond) ==
    IF i >= ConcurrentExecutions THEN "pass"
    ELSE IF st.nil THEN PanicNil
    ELSE IF i + 1 >= Len(countFirst) \/ i + 1 >= Len(countSecond) THEN PanicIndex
    ELSE LET tmpCount == U64(U64(dataCount) * U64(At(st.alphas, i))) % U64(ModP)
             tagCount == U32(tmpCount)
             reconstructedTagCount ==
                 U32(At(countFirst, i + 1) + At(countSecond, i + 1)) % ModP
         IN  IF tagCount # reconstructedTagCount THEN "REJECT count"
             ELSE IF i + 1 >= Len(sumFirst) \/ i + 1 >= Len(sumSecond) THEN PanicIndex
             ELSE LET tmpSum == U64(U64(sumCount) * U64(At(st.alphas, i))) % U64(ModP)
                      tagSum == U32(tmpSum)
                      reconstructedTagSum ==
                          U32(At(sumFirst, i + 1) + At(sumSecond, i + 1)) % ModP
                  IN  IF tagSum # reconstructedTagSum THEN "REJECT sum"
                      ELSE CheckTagsAVG(i + 1, dataCount, sumCount, st,
                                        countFirst, countSecond, sumFirst, sumSecond)

\* the AVG branch, lines 104-132
ReconstructAVG(st, ans) ==
    LET n == 1 + ConcurrentExecutions
    IN  IF Len(ans[2]) < n THEN Failure(PanicIndex)
        ELSE LET countFirst == SubSeq(ans[1], 1, n)
                 countSecond == SubSeq(ans[2], 1, n)
                 sumFirst == SubSeq(ans[1], n + 1, Len(ans[1]))
                 sumSecond == SubSeq(ans[2], n + 1, Len(ans[2]))
             IN  IF Len(sumSecond) = 0 THEN Failure(PanicIndex)
                 ELSE LET dataCount == U32(At(countFirst, 0) + At(countSecond, 0)) % ModP
                          sumCount == U32(At(sumFirst, 0) + At(sumSecond, 0)) % ModP
                          tags == CheckTagsAVG(0, dataCount, sumCount, st,
                                               countFirst, countSecond, sumFirst, sumSecond)
                      IN  IF tags # "pass" THEN Failure(tags)
                          ELSE IF dataCount = 0 THEN Failure(PanicDivide)
                          ELSE Value(sumCount \div dataCount)

\* the non-AVG branch returning the data without verifying any tag
ReconstructDataUnverified(st, ans) ==
    IF Len(ans[1]) = 0 \/ Len(ans[2]) = 0 THEN Failure(PanicIndex)
    ELSE Value(U32(At(ans[1], 0) + At(ans[2], 0)) % ModP)

\* the non-AVG branch, lines 134-150
ReconstructData(st, ans) ==
    IF Len(ans[1]) = 0 \/ Len(ans[2]) = 0 THEN Failure(PanicIndex)
    ELSE LET data == U32(At(ans[1], 0) + At(ans[2], 0)) % ModP
         IN  CheckTags(0, data, st, ans)

\* PredicateAPIR.Reconstruct: the value and error returned for client state st
ReconstructResult(st, ans) ==
    IF Len(ans[1]) = 2 * (1 + ConcurrentExecutions)
    THEN ReconstructAVG(st, ans)
    ELSE ReconstructData(st, ans)

----------------------------------------------------------------------------
(* PredicateAPIR.Query and the servers *)

\* invalidQueryInputsFSS: the number of servers is wrong
invalidQueryInputsFSS(numServers) == numServers < 1

\* field.RandElementWithPRG: a uniform element of F_p
RandElementWithPRG == Field

\* the aggregations a query's Info can ask for
Kinds == {"COUNT", "AVG"}

\* the client state set by Query, lines 70-78, for the sampled alphas
QueryState(alphas) ==
    [nil |-> FALSE, alphas |-> alphas, a |-> <<1>> \o alphas]

IsPanic(r) == r.err \in {PanicNil, PanicIndex, PanicDivide, PanicRange}

Min(x, y) == IF x < y THEN x ELSE y

\* a Query was issued and no Reconstruct has returned since
IsPending == pending > 0 /\ ret = NoRet

\* Query that keeps the state of a query still pending instead of replacing it
QueryKeepFirst(kind, numServers, alphas) ==
    /\ ~exited
    /\ IF invalidQueryInputsFSS(numServers)
       THEN /\ exited' = TRUE
            /\ state' = NoState
            /\ query' = NoQuery
            /\ truth' = NoTruth
            /\ answers' = NoAnswers
            /\ origin' = "none"
            /\ flip' = NoFlip
            /\ ret' = Failure(Fatal)
            /\ pending' = 0
            /\ discarded' = NoState
            /\ UNCHANGED <<client, gfVars>>
       ELSE /\ state' = IF IsPending THEN state ELSE QueryState(alphas)
            /\ query' = [kind |-> kind, keys |-> 2, a |-> <<1>> \o alphas]
            /\ discarded' = IF IsPending THEN QueryState(alphas) ELSE NoState
            /\ pending' = IF IsPending THEN Min(pending + 1, MaxPending) ELSE 1
            /\ truth' = NoTruth
            /\ answers' = NoAnswers
            /\ origin' = "none"
            /\ flip' = NoFlip
            /\ ret' = NoRet
            /\ UNCHANGED <<client, gfVars, exited>>

\* Query(q, numServers): lines 64-87
Query(kind, numServers, alphas) ==
    /\ ~exited
    /\ IF invalidQueryInputsFSS(numServers)
       THEN \* log.Fatal: the process exits and its memory is gone
            /\ exited' = TRUE
            /\ state' = NoState
            /\ query' = NoQuery
            /\ truth' = NoTruth
            /\ answers' = NoAnswers
            /\ origin' = "none"
            /\ flip' = NoFlip
            /\ ret' = Failure(Fatal)
            /\ pending' = 0
            /\ discarded' = NoState
            /\ UNCHANGED <<client, gfVars>>
       ELSE /\ state' = QueryState(alphas)
            /\ query' = [kind |-> kind, keys |-> 2, a |-> <<1>> \o alphas]
            /\ discarded' = IF IsPending THEN state ELSE NoState
            /\ pending' = IF IsPending THEN Min(pending + 1, MaxPending) ELSE 1
            /\ truth' = NoTruth
            /\ answers' = NoAnswers
            /\ origin' = "none"
            /\ flip' = NoFlip
            /\ ret' = NoRet
            /\ UNCHANGED <<client, gfVars, exited>>

\* v scaled by the field element d, slot by slot
Scale(d, v) == [s \in 1 .. Len(v) |-> (d * v[s]) % ModP]

\* the two servers' answers: additive shares in F_p of target, server 0 holding mask
Shares(target, mask) ==
    << mask, [s \in 1 .. Len(target) |-> (target[s] + ModP - mask[s]) % ModP] >>

\* what honest servers evaluate for a query whose matching rows count to cnt and
\* whose matching values sum to sum
Target(q, cnt, sum) ==
    IF q.kind = "AVG" THEN Scale(cnt, q.a) \o Scale(sum, q.a) ELSE Scale(cnt, q.a)

\* the vector of length n with every entry c
Const(c, n) == [s \in 1 .. n |-> c]

\* share randomness of server 0 considered: any vector for one aggregate, a
\* constant vector for the two aggregates of AVG
Masks(q) ==
    IF q.kind = "AVG"
    THEN {Const(c, 2 * (1 + ConcurrentExecutions)) : c \in Field}
    ELSE Vectors(Field, 1 + ConcurrentExecutions)

\* both servers answer the query in flight
Answer(cnt, sum, mask) ==
    /\ ~exited
    /\ query # NoQuery
    /\ origin = "none"
    /\ truth' = [cnt |-> cnt, sum |-> IF query.kind = "AVG" THEN sum ELSE 0]
    /\ answers' = Shares(Target(query, cnt, sum), mask)
    /\ origin' = "honest"
    /\ UNCHANGED <<client, gfVars, state, query, flip, ret, exited, pending, discarded>>

\* x with bit b toggled
FlipBit(x, b) == IF (x \div Pow2(b)) % 2 = 1 THEN x - Pow2(b) ELSE x + Pow2(b)

\* server 0 flips bit b of entry e (0-based) of its answer before Reconstruct
Tamper(e, b) ==
    /\ ~exited
    /\ origin = "honest"
    /\ ret = NoRet
    /\ e < Len(answers[1])
    /\ answers' = << [answers[1] EXCEPT ![e + 1] = FlipBit(@, b)], answers[2] >>
    /\ origin' = "flipped"
    /\ flip' = [entry |-> e, bit |-> b]
    /\ UNCHANGED <<client, gfVars, state, query, truth, ret, exited, pending, discarded>>

\* the shape of the answers to q: 1+k entries, twice that for AVG
AnswerLen(q) ==
    IF q.kind = "AVG" THEN 2 * (1 + ConcurrentExecutions) ELSE 1 + ConcurrentExecutions

\* pairs of vectors of field elements a caller can pass as answers to q: any
\* pair for one aggregate, server 0 constant for AVG
Forged(q) ==
    IF q.kind = "AVG"
    THEN {<<a0, a1>> : a0 \in {Const(c, AnswerLen(q)) : c \in Field},
                       a1 \in Vectors(Field, AnswerLen(q))}
    ELSE {<<a0, a1>> : a0 \in Vectors(Field, AnswerLen(q)),
                       a1 \in Vectors(Field, AnswerLen(q))}

\* the vectors a server can send: field elements, of any length up to the
\* length of an AVG answer
ServerVectors == {Const(c, n) : c \in Field, n \in 0 .. (2 * (1 + ConcurrentExecutions))}

\* the answers two servers can send, each vector of its own length
ServerAnswers == {<<a0, a1>> : a0 \in ServerVectors, a1 \in ServerVectors}

\* the caller holds arbitrary vectors of field elements as the answers
Forge(ans) ==
    /\ ~exited
    /\ origin = "none"
    /\ answers' = ans
    /\ origin' = "forged"
    /\ UNCHANGED <<client, gfVars, state, query, truth, flip, ret, exited, pending, discarded>>

\* the servers' answers to the query that the latest Query overwrote arrive
Stale(cnt, mask) ==
    /\ answers' = Shares(Scale(cnt, discarded.a), mask)
    /\ origin' = "stale"
    /\ UNCHANGED <<client, gfVars, state, query, truth, flip, ret, exited, pending, discarded>>

\* Reconstruct(answers): lines 102-151
Reconstruct ==
    /\ ~exited
    /\ answers # NoAnswers
    /\ ret' = ReconstructResult(state, answers)
    /\ exited' = IsPanic(ret')
    /\ UNCHANGED <<client, gfVars, state, query, truth, answers, origin, flip, pending, discarded>>

----------------------------------------------------------------------------
(* GF(2^GFBits): the field of the single-bit scheme *)

GF == 0 .. (Pow2(GFBits) - 1)
Zero == 0
One == 1

\* Element.Add: bitwise exclusive or
RECURSIVE Add(_, _)
Add(x, y) ==
    IF x = 0 /\ y = 0 THEN 0
    ELSE (((x % 2) + (y % 2)) % 2) + 2 * Add(x \div 2, y \div 2)

\* Element.Neg: every element is its own opposite in characteristic 2
Neg(x) == x

\* the field sum of the elements of the sequence v
RECURSIVE SumAll(_)
SumAll(v) == IF Len(v) = 0 THEN Zero ELSE Add(Head(v), SumAll(Tail(v)))

\* Go's integer division and remainder, truncated towards zero
GoDiv(x, y) == IF x >= 0 THEN x \div y ELSE -((-x) \div y)
GoRem(x, y) == x - y * GoDiv(x, y)

\* int(math.Sqrt(n)) for the n in use
RECURSIVE SqrtFrom(_, _)
SqrtFrom(n, r) == IF (r + 1) * (r + 1) > n THEN r ELSE SqrtFrom(n, r + 1)
IntSqrt(n) == SqrtFrom(n, 0)

----------------------------------------------------------------------------
(* ITSingleGF *)

PanicInvalid == "panic: invalid query inputs"

\* invalidQueryInputs, lines 325-327
invalidQueryInputs(index, numServers) ==
    (index < 0 \/ index > DBLength) /\ numServers < 1

\* the client state set by Query, lines 226-246, for a client built with
\* rebalanced = r
QueryStateFor(r, index, alpha) ==
    IF ~r
    THEN [nil |-> FALSE, ix |-> index, iy |-> 0, alpha |-> alpha, dbLength |-> DBLength]
    ELSE LET dbLengthSqrt == IntSqrt(DBLength)
         IN  [nil |-> FALSE, ix |-> GoRem(index, dbLengthSqrt),
              iy |-> GoDiv(index, dbLengthSqrt), alpha |-> alpha,
              dbLength |-> dbLengthSqrt]

\* the client state set by Query of this client
GFQueryState(index, alpha) == QueryStateFor(rebalanced, index, alpha)

\* secretSharing whose last vector is not masked by the random elements
secretSharingUnmasked(st, numServers, randomElements) ==
    [k \in 1 .. numServers |->
        [i \in 1 .. st.dbLength |->
            IF k < numServers
            THEN randomElements[st.dbLength * (k - 1) + i]
            ELSE IF i - 1 = st.ix THEN st.alpha ELSE Zero]]

\* secretSharing that adds alpha one position after ix
secretSharingOffByOne(st, numServers, randomElements) ==
    [k \in 1 .. numServers |->
        [i \in 1 .. st.dbLength |->
            IF k < numServers
            THEN randomElements[st.dbLength * (k - 1) + i]
            ELSE LET sum == SumAll([j \in 1 .. (numServers - 1) |->
                                       randomElements[st.dbLength * (j - 1) + i]])
                     neg == Neg(sum)
                 IN  IF i = st.ix THEN Add(neg, st.alpha) ELSE neg]]

\* secretSharing, lines 288-322, for numServers >= 1: randomElements holds
\* dbLength * (numServers - 1) elements
secretSharing(st, numServers, randomElements) ==
    [k \in 1 .. numServers |->
        [i \in 1 .. st.dbLength |->
            IF k < numServers
            THEN randomElements[st.dbLength * (k - 1) + i]
            ELSE LET sum == SumAll([j \in 1 .. (numServers - 1) |->
                                       randomElements[st.dbLength * (j - 1) + i]])
                     neg == Neg(sum)
                 IN  IF i - 1 = st.ix THEN Add(neg, st.alpha) ELSE neg]]

\* field.RandomVector(n, xof): every vector for the first share, constant
\* vectors for each further share
RandomVector(numServers, dbLength) ==
    IF numServers <= 1 THEN {<<>>}
    ELSE IF numServers = 2 THEN Vectors(GF, dbLength)
    ELSE {r \o rest : r \in Vectors(GF, dbLength),
                      rest \in {Const(c, dbLength * (numServers - 2)) : c \in GF}}

\* Query(index, numServers): lines 216-254
GFQuery(index, numServers, alpha, randomElements) ==
    IF invalidQueryInputs(index, numServers)
    THEN /\ gfRet' = Failure(PanicInvalid)
         /\ exited' = TRUE
         /\ call' = [index |-> index, numServers |-> numServers, alpha |-> Zero]
         /\ UNCHANGED <<client, predVars, rebalanced, db>>
         /\ UNCHANGED <<gfState, vectors, gfAnswers, gfOrigin, gfDiscarded, pending>>
    ELSE /\ UNCHANGED <<client, predVars, rebalanced, db>>
         /\ gfState' = GFQueryState(index, alpha)
         /\ call' = [index |-> index, numServers |-> numServers, alpha |-> alpha]
         /\ gfDiscarded' = IF pending > 0 /\ gfRet = NoRet THEN gfState ELSE NoGFState
         /\ pending' = IF pending > 0 /\ gfRet = NoRet
                       THEN Min(pending + 1, MaxPending) ELSE 1
         /\ gfAnswers' = <<>>
         /\ gfOrigin' = "none"
         /\ IF numServers < 1
            THEN \* make of a negative length, or vectors[numServers-1] out of range
                 /\ vectors' = <<>>
                 /\ gfRet' = Failure(PanicRange)
                 /\ exited' = TRUE
            ELSE /\ vectors' = secretSharing(gfState', numServers, randomElements)
                 /\ gfRet' = NoRet
                 /\ UNCHANGED exited

\* Server.Answer of one server: the inner product of the query with the
\* database, row by row when rebalanced
ServerAnswer(d, q) ==
    LET cols == Len(q)
        rows == DBLength \div cols
    IN  [r \in 1 .. rows |->
            SumAll([j \in 1 .. cols |->
                       IF d[(r - 1) * cols + j] = 1 THEN q[j] ELSE Zero])]

\* every server answers its query vector from the database d
GFAnswer(d) ==
    /\ db' = d
    /\ gfAnswers' = [k \in 1 .. Len(vectors) |-> ServerAnswer(d, vectors[k])]
    /\ gfOrigin' = "honest"
    /\ vectors' = <<>>
    /\ UNCHANGED <<client, predVars, rebalanced>>
    /\ UNCHANGED <<gfState, call, gfRet, gfDiscarded, exited, pending>>

\* the caller holds arbitrary answers of the servers' shape
GFForge(ans) ==
    /\ gfAnswers' = ans
    /\ gfOrigin' = "forged"
    /\ vectors' = <<>>
    /\ UNCHANGED <<client, predVars, rebalanced, db>>
    /\ UNCHANGED <<gfState, call, gfRet, gfDiscarded, exited, pending>>

\* the length of an honest answer
GFAnswerLen == IF rebalanced THEN IntSqrt(DBLength) ELSE 1

\* the answers a caller can pass for numServers servers
GFForged(numServers) == Vectors(Vectors(GF, GFAnswerLen), numServers)

\* the summing loop that compares each sum with alpha only
RECURSIVE SumAnswersAlphaOnly(_, _, _, _)
SumAnswersAlphaOnly(i, st, ans, sum) ==
    IF i >= Len(ans[1]) THEN [sum |-> sum, err |-> "nil"]
    ELSE IF \E s \in 1 .. Len(ans) : Len(ans[s]) <= i THEN [sum |-> sum, err |-> PanicIndex]
    ELSE LET x == SumAll([s \in 1 .. Len(ans) |-> At(ans[s], i)])
         IN  IF st.nil THEN [sum |-> sum, err |-> PanicNil]
             ELSE IF x # st.alpha THEN [sum |-> sum, err |-> "REJECT!"]
             ELSE SumAnswersAlphaOnly(i + 1, st, ans, Append(sum, x))

\* the summing loop, lines 261-270, from position i on: the sums, or the error
RECURSIVE SumAnswers(_, _, _, _)
SumAnswers(i, st, ans, sum) ==
    IF i >= Len(ans[1]) THEN [sum |-> sum, err |-> "nil"]
    ELSE IF \E s \in 1 .. Len(ans) : Len(ans[s]) <= i THEN [sum |-> sum, err |-> PanicIndex]
    ELSE LET x == SumAll([s \in 1 .. Len(ans) |-> At(ans[s], i)])
         IN  IF st.nil THEN [sum |-> sum, err |-> PanicNil]
             ELSE IF x # st.alpha /\ x # Zero THEN [sum |-> sum, err |-> "REJECT!"]
             ELSE SumAnswers(i + 1, st, ans, Append(sum, x))

\* ITSingleGF.Reconstruct, lines 256-286: the value and error returned
GFReconstructResult(st, ans) ==
    IF Len(ans) = 0 THEN Failure(PanicIndex)
    ELSE LET sums == SumAnswers(0, st, ans, <<>>)
         IN  IF sums.err # "nil" THEN Failure(sums.err)
             ELSE IF rebalanced /\ st.nil THEN Failure(PanicNil)
             ELSE LET i == IF rebalanced THEN st.iy ELSE 0
                  IN  IF i < 0 \/ i >= Len(sums.sum) THEN Failure(PanicIndex)
                      ELSE IF st.nil THEN Failure(PanicNil)
                      ELSE IF At(sums.sum, i) = st.alpha THEN Value(One)
                      ELSE IF At(sums.sum, i) = Zero THEN Value(Zero)
                      ELSE Failure("REJECT!")

\* the servers' answers, from the database d, to the single-server query that
\* the latest Query overwrote arrive
GFStale(d) ==
    /\ db' = d
    /\ gfAnswers' = << ServerAnswer(d, secretSharing(gfDiscarded, 1, <<>>)[1]) >>
    /\ gfOrigin' = "stale"
    /\ vectors' = <<>>
    /\ UNCHANGED <<client, predVars, rebalanced>>
    /\ UNCHANGED <<gfState, call, gfRet, gfDiscarded, exited, pending>>

\* Reconstruct(answers)
GFReconstruct ==
    /\ ~exited
    /\ gfAnswers # <<>>
    /\ gfRet' = GFReconstructResult(gfState, gfAnswers)
    /\ exited' = IsPanic(gfRet')
    /\ UNCHANGED <<client, predVars, rebalanced, db, gfState, call, vectors, gfAnswers,
                   gfOrigin, gfDiscarded, pending>>

----------------------------------------------------------------------------
(* Manager: GetKey and RunQueries over the connections *)

\* a Manager connected to n servers, not used yet
InitManager(n) ==
    /\ conns = n
    /\ queries = 0
    /\ gor = [j \in 0 .. (n - 1) |-> "idle"]
    /\ resCh = <<>>
    /\ handed = <<>>
    /\ main = "idle"
    /\ requests = 0
    /\ result = "none"

\* the goroutines, by the j each was started with
Goroutines == 0 .. (conns - 1)

\* GetKey lines 80-92: QueryBytes for len(m.connections) servers, then the
\* WaitGroup and the channel; in cannot be decoded when malformed
GetKeyQuery(alphas, malformed) ==
    /\ ~exited
    /\ main = "idle"
    /\ IF malformed
       THEN /\ result' = "error"
            /\ main' = "returned"
            /\ UNCHANGED <<client, predVars, gfVars, exited, pending>>
            /\ UNCHANGED <<conns, queries, gor, resCh, handed, requests>>
       ELSE /\ Query("COUNT", conns, alphas)
            /\ queries' = query'.keys
            /\ gor' = [j \in Goroutines |-> "idle"]
            /\ main' = "dispatch"
            /\ UNCHANGED <<conns, resCh, handed, requests, result>>

\* one iteration of the loop over m.connections, lines 94-101: wg.Add(1) and
\* the go statement with the current j, then j++
Go(j) ==
    /\ ~exited
    /\ main = "dispatch"
    /\ j \in Goroutines
    /\ gor[j] = "idle"
    /\ \A i \in Goroutines : i < j => gor[i] # "idle"
    /\ gor' = [gor EXCEPT ![j] = "spawned"]
    /\ main' = IF j = conns - 1 THEN "wait" ELSE "dispatch"
    /\ UNCHANGED <<client, predVars, gfVars, exited, pending>>
    /\ UNCHANGED <<conns, queries, resCh, handed, requests, result>>

\* goroutine j evaluates queries[j] and calls queryServer, lines 205-217: ok
\* when the server replies, log.Fatalf on a transport error
QueryServer(j, ok) ==
    /\ ~exited
    /\ j \in Goroutines
    /\ gor[j] = "spawned"
    /\ IF j >= queries
       THEN \* queries[j]: index out of range, the process dies
            /\ gor' = [gor EXCEPT ![j] = "panicked"]
            /\ exited' = TRUE
            /\ UNCHANGED requests
       ELSE /\ requests' = requests + 1
            /\ gor' = [gor EXCEPT ![j] = IF ok THEN "replied" ELSE "failed"]
            /\ exited' = ~ok
    /\ UNCHANGED <<client, predVars, gfVars, pending>>
    /\ UNCHANGED <<conns, queries, resCh, handed, main, result>>

\* the capacity of resCh: make(chan []byte, len(m.connections))
Cap == conns

\* goroutine j sends the reply it holds on resCh, blocked while the buffer is
\* full, then wg.Done()
Send(j) ==
    /\ ~exited
    /\ j \in Goroutines
    /\ gor[j] = "replied"
    /\ Len(resCh) < Cap
    /\ resCh' = Append(resCh, j)
    /\ gor' = [gor EXCEPT ![j] = "done"]
    /\ UNCHANGED <<client, predVars, gfVars, exited, pending>>
    /\ UNCHANGED <<conns, queries, handed, main, requests, result>>

\* a wait that returns as soon as one goroutine is done
WaitFirst ==
    /\ ~exited
    /\ main = "wait"
    /\ \E j \in Goroutines : gor[j] = "done"
    /\ handed' = resCh
    /\ resCh' = <<>>
    /\ main' = "drained"
    /\ UNCHANGED <<client, predVars, gfVars, exited, pending>>
    /\ UNCHANGED <<conns, queries, gor, requests, result>>

\* wg.Wait() returns, close(resCh), and the loop over resCh appends what it
\* receives: lines 102-109 (RunQueries lines 234-243)
Wait ==
    /\ ~exited
    /\ main = "wait"
    /\ \A j \in Goroutines : gor[j] = "done"
    /\ handed' = resCh
    /\ resCh' = <<>>
    /\ main' = "drained"
    /\ UNCHANGED <<client, predVars, gfVars, exited, pending>>
    /\ UNCHANGED <<conns, queries, gor, requests, result>>

\* the reply of server j to queries[j]
Reply(j) == answers[j + 1]

\* GetKey that starts the dispatch again when the reconstruction is rejected
GetKeyReconstructRetry(found, decoded) ==
    /\ ~exited
    /\ main = "drained"
    /\ ret' = IF ~decoded THEN ret
              ELSE IF Len(handed) < 2 THEN Failure(PanicIndex)
              ELSE ReconstructResult(state, [i \in 1 .. Len(handed) |-> Reply(handed[i])])
    /\ exited' = IsPanic(ret')
    /\ result' = IF IsPanic(ret') \/ (decoded /\ ret'.err # "nil") THEN "none"
                 ELSE IF ~decoded THEN "error"
                 ELSE IF found THEN "key" ELSE "error"
    /\ main' = IF IsPanic(ret') THEN main
               ELSE IF decoded /\ ret'.err # "nil" THEN "dispatch" ELSE "returned"
    /\ gor' = IF decoded /\ ret'.err # "nil" /\ ~IsPanic(ret')
              THEN [j \in Goroutines |-> "idle"] ELSE gor
    /\ UNCHANGED <<client, gfVars, state, query, truth, answers, origin, flip, pending, discarded>>
    /\ UNCHANGED <<conns, queries, resCh, handed, requests>>

\* GetKey lines 111-130: ReconstructBytes (lines 91-98) on the assembled
\* answers, decodeAnswer failing when they are not decodable, an error returned
\* to the caller; then the key is looked up in the block (found or not)
GetKeyReconstruct(found, decoded) ==
    /\ ~exited
    /\ main = "drained"
    /\ ret' = IF ~decoded THEN ret
              ELSE IF Len(handed) < 2 THEN Failure(PanicIndex)
              ELSE ReconstructResult(state, [i \in 1 .. Len(handed) |-> Reply(handed[i])])
    /\ exited' = IsPanic(ret')
    /\ result' = IF IsPanic(ret') THEN "none"
                 ELSE IF ~decoded \/ ret'.err # "nil" THEN "error"
                 ELSE IF found THEN "key" ELSE "error"
    /\ main' = IF IsPanic(ret') THEN main ELSE "returned"
    /\ UNCHANGED <<client, gfVars, state, query, truth, answers, origin, flip, pending, discarded>>
    /\ UNCHANGED <<conns, queries, gor, resCh, handed, requests>>

\* RunQueries lines 221-227, called with nq queries: the WaitGroup and the
\* channel; with no connection the loop is skipped
RunQueries(nq) ==
    /\ ~exited
    /\ main = "idle"
    /\ queries' = nq
    /\ gor' = [j \in Goroutines |-> "idle"]
    /\ main' = IF conns = 0 THEN "wait" ELSE "dispatch"
    /\ UNCHANGED <<client, predVars, gfVars, exited, pending>>
    /\ UNCHANGED <<conns, resCh, handed, requests, result>>

\* RunQueries line 245: return q
RunQueriesReturn ==
    /\ ~exited
    /\ main = "drained"
    /\ main' = "returned"
    /\ result' = "answers"
    /\ UNCHANGED <<client, predVars, gfVars, exited, pending>>
    /\ UNCHANGED <<conns, queries, gor, resCh, handed, requests>>

\* the share randomness of server 0 considered under the Manager
ManagerMasks == {Const(c, 1 + ConcurrentExecutions) : c \in Field}

----------------------------------------------------------------------------
(* Padding of the blocks: PadBlock and UnPadBlock *)

\* largest length of a byte string padded
MaxBlock == 3
\* largest blockLen padded to
MaxBlockLen == 3

\* the bytes considered: 0x00, an ASCII byte, 0x80, and 0xC2, the first byte of
\* the two-byte UTF-8 encoding C2 80 of U+0080
Bytes == {0, 1, 128, 194}

\* byte strings of length at most n
ByteStrings(n) == UNION {Vectors(Bytes, l) : l \in 0 .. n}

NoBlock == <<255>>

\* PadBlock with the zeros counted from the length before 0x80 is appended
PadBlockBeforeAppend(block, blockLen) ==
    Append(block, 128) \o Const(0, blockLen - (Len(block) % blockLen))

\* PadBlock, lines 150-154
PadBlock(block, blockLen) ==
    LET appended == Append(block, 128)
        zeros == Const(0, blockLen - (Len(appended) % blockLen))
    IN  appended \o zeros

\* utf8.DecodeLastRune on the bytes considered: the rune and its width
DecodeLastRune(s) ==
    LET last == s[Len(s)]
    IN  IF last < 128 THEN [r |-> last, size |-> 1]
        ELSE IF last = 128 /\ Len(s) >= 2 /\ s[Len(s) - 1] = 194
        THEN [r |-> 128, size |-> 2]
        ELSE [r |-> 65533, size |-> 1]

\* utf8.DecodeRune on the bytes considered: the width of the first rune
DecodeRuneWidth(s) ==
    IF Len(s) >= 2 /\ s[1] = 194 /\ s[2] = 128 THEN 2 ELSE 1

\* bytes.lastIndexFunc(s[0:i], f, false) with f the test r == 0: the 0-based
\* index of the last rune that is not 0, or -1
RECURSIVE LastIndexNotZero(_, _)
LastIndexNotZero(s, i) ==
    IF i <= 0 THEN -1
    ELSE LET d == IF s[i] >= 128 THEN DecodeLastRune(SubSeq(s, 1, i))
                  ELSE [r |-> s[i], size |-> 1]
         IN  IF d.r # 0 THEN i - d.size ELSE LastIndexNotZero(s, i - d.size)

\* bytes.TrimRightFunc(block, r == 0), lines 158-160
TrimRightZeros(s) ==
    LET i == LastIndexNotZero(s, Len(s))
        end == IF i >= 0 /\ At(s, i) >= 128
               THEN i + DecodeRuneWidth(SubSeq(s, i + 1, Len(s)))
               ELSE i + 1
    IN  SubSeq(s, 1, end)

\* UnPadBlock, lines 156-163: the value, or the panic of the slice expression
UnPadBlock(block) ==
    LET trimmed == TrimRightZeros(block)
    IN  IF Len(trimmed) = 0 THEN Failure(PanicRange)
        ELSE Value(SubSeq(trimmed, 1, Len(trimmed) - 1))

\* nothing padded
InitPad ==
    /\ padIn = [block |-> NoBlock, blockLen |-> 0]
    /\ padOut = NoBlock
    /\ unpadOut = NoRet

\* v = PadBlock(block, blockLen)
Pad(block, blockLen) ==
    /\ padOut = NoBlock
    /\ padIn' = [block |-> block, blockLen |-> blockLen]
    /\ padOut' = PadBlock(block, blockLen)
    /\ UNCHANGED unpadOut

\* UnPadBlock of a padded block
UnPad ==
    /\ padOut # NoBlock
    /\ unpadOut.err = "none"
    /\ unpadOut' = UnPadBlock(padOut)
    /\ UNCHANGED <<padIn, padOut>>

\* UnPadBlock of a block that was not padded (GetKey line 117 on what the
\* servers returned)
UnPadRaw(block) ==
    /\ padOut = NoBlock
    /\ unpadOut.err = "none"
    /\ padIn' = [block |-> block, blockLen |-> 0]
    /\ padOut' = block
    /\ unpadOut' = UnPadBlock(block)

----------------------------------------------------------------------------
(* GenerateRealKeyDB and GenerateRealKeyBytes *)

\* 1 / numKeysToDBLengthRatio
KeysPerBlock == 10
\* largest number of keys loaded
MaxKeys == 20
\* largest elementLength
MaxElementLength == 2
\* largest byte length of the value of a bucket
MaxValueLen == 2

NoTable == <<>>

\* int(float32(len(keys)) * numKeysToDBLengthRatio): the conversion to int
\* truncates
NumBlocks(numKeysLoaded) == numKeysLoaded \div KeysPerBlock

\* IncreaseToNextSquare leaving num as it is
IncreaseToNextSquareNoop(num) == num

\* utils.IncreaseToNextSquare, utils.go lines 28-37
IncreaseToNextSquare(num) ==
    LET i == IntSqrt(num)
    IN  IF i * i = num THEN num ELSE (i + 1) * (i + 1)

\* numColumns, lines 41-47: int(math.Sqrt(float64(numBlocks))) when rebalanced,
\* numBlocks otherwise
Columns(blocks, r) == IF r THEN IntSqrt(blocks) ELSE blocks

\* the table length passed to makeHashTable, lines 31-35
TableLength(numKeysLoaded, r) ==
    IF r THEN IncreaseToNextSquare(NumBlocks(numKeysLoaded)) ELSE NumBlocks(numKeysLoaded)

\* the hash tables makeHashTable can return for tableLen > 0: some buckets,
\* each with the concatenated packets of its keys, at least one byte
HashTables(tableLen) ==
    UNION {[B -> {Const(1, l) : l \in 1 .. MaxValueLen}] :
              B \in (SUBSET (0 .. (tableLen - 1))) \ {{}}}

\* utils.MaxBytesLength, utils.go lines 11-20
RECURSIVE MaxOver(_, _)
MaxOver(B, table) ==
    IF B = {} THEN 0
    ELSE LET k == CHOOSE x \in B : TRUE
             rest == MaxOver(B \ {k}, table)
         IN  IF Len(table[k]) > rest THEN Len(table[k]) ELSE rest
MaxBytesLength(table) == MaxOver(DOMAIN table, table)

\* int(math.Ceil(float64(a) / float64(b)))
CeilDiv(a, b) == (a + b - 1) \div b

\* blockLen, lines 37-40
BlockLen(table, eLen) == CeilDiv(MaxBytesLength(table) + 1, eLen)

\* the entries that the loop of lines 66-71 passes to SetEntry for bucket k:
\* its condition k < (k+1)*blockLen holds throughout, only the break ends it
EntriesWritten(k, nElements, bLen) ==
    IF k < (k + 1) * bLen
    THEN (k * bLen) .. (k * bLen + nElements - 1)
    ELSE {}

\* nothing loaded
InitGen ==
    /\ numKeys = 0
    /\ dbRebalanced = FALSE
    /\ elementLength = 0
    /\ numBlocks = -1
    /\ ht = NoTable
    /\ tableBlockLen = 0
    /\ embedded = {}
    /\ written = {}
    /\ genErr = "none"
    /\ numRows = 0
    /\ numColumns = 0

\* lines 20-35: the keys are loaded and the length of the table is decided
SizeTable(n, r, eLen) ==
    /\ numBlocks = -1
    /\ numKeys' = n
    /\ dbRebalanced' = r
    /\ elementLength' = eLen
    /\ numBlocks' = TableLength(n, r)
    /\ UNCHANGED <<ht, tableBlockLen, embedded, written, genErr, numRows, numColumns>>

\* lines 35-51: makeHashTable, the block length and the zero database;
\* HashToIndex(id, 0) divides by zero
MakeHashTable(table) ==
    /\ numBlocks >= 0
    /\ tableBlockLen = 0
    /\ genErr = "none"
    /\ IF numBlocks = 0
       THEN /\ genErr' = PanicDivide
            /\ UNCHANGED <<ht, tableBlockLen, numRows, numColumns>>
       ELSE /\ ht' = table
            /\ tableBlockLen' = BlockLen(table, elementLength)
            /\ numColumns' = Columns(numBlocks, dbRebalanced)
            /\ numRows' = IF dbRebalanced THEN Columns(numBlocks, dbRebalanced) ELSE 1
            /\ UNCHANGED genErr
    /\ UNCHANGED <<numKeys, dbRebalanced, elementLength, numBlocks, embedded, written>>

\* one iteration of the loop over ht, lines 55-72: bucket k is padded, cut
\* into elements and written; an entry beyond the database is a panic
Embed(k) ==
    /\ tableBlockLen > 0
    /\ genErr = "none"
    /\ k \in DOMAIN ht
    /\ k \notin embedded
    /\ LET v == PadBlock(ht[k], elementLength)
           nElements == Len(v) \div elementLength
           entries == EntriesWritten(k, nElements, tableBlockLen)
           inside == {m \in entries : m < numBlocks * tableBlockLen}
       IN  /\ written' = written \cup {[bucket |-> k, entry |-> m] : m \in inside}
           /\ genErr' = IF inside # entries THEN PanicIndex ELSE "none"
    /\ embedded' = embedded \cup {k}
    /\ UNCHANGED <<numKeys, dbRebalanced, elementLength, numBlocks, ht, tableBlockLen,
                   numRows, numColumns>>

\* nothing outside the client has been used
----------------------------------------------------------------------------
(* The two-party distributed point function (lib/dpf), exercised as TestEval
   does: Gen, then Eval of both keys at every i of the domain in turn *)

\* the length of a seed in bits, 128 in the library
SeedBits == 2
\* the length of beta in TestEval
BetaLen == 2
\* the largest domain bit length the harness passes
MaxLogN == 2

Seed == 0 .. (Pow2(SeedBits) - 1)
Betas == Vectors(Field, BetaLen)

NoDPFCall == [alpha |-> -1, beta |-> <<>>, logN |-> 0]
NoKeys == <<>>

\* the exclusive or of two seeds
Xor(x, y) == Add(x, y)

\* the fixed-key PRG: a seed expands into (sL, tL, sR, tR); key selects the
\* fixed key
PRG(key, s) ==
    [sL |-> (s + key) % Pow2(SeedBits),
     tL |-> ((s \div 2) + key) % 2,
     sR |-> (3 * s + key + 1) % Pow2(SeedBits),
     tR |-> (s + (key \div 2)) % 2]

\* convert: the field elements a leaf seed stands for
Convert(s) == [j \in 1 .. BetaLen |-> (s * j + j - 1) % ModP]

\* slot-wise field operations
VecAdd(u, v) == [j \in 1 .. Len(u) |-> (u[j] + v[j]) % ModP]
VecNeg(u) == [j \in 1 .. Len(u) |-> (ModP - u[j]) % ModP]
VecSub(u, v) == VecAdd(u, VecNeg(v))
VecZero == Const(0, BetaLen)

\* bit i of x, the most significant of the logN bits first
BitOf(x, i, logN) == (x \div Pow2(logN - 1 - i)) % 2

\* one level of Gen: both seeds are expanded, the correction word cancels the
\* children off the path, and each party keeps its corrected child on the path
GenLevel(key, st, a) ==
    LET A == PRG(key, st.sA)
        B == PRG(key, st.sB)
        sCW == IF a = 0 THEN Xor(A.sR, B.sR) ELSE Xor(A.sL, B.sL)
        tLCW == (A.tL + B.tL + a + 1) % 2
        tRCW == (A.tR + B.tR + a) % 2
        tCW == IF a = 0 THEN tLCW ELSE tRCW
        keepSA == IF a = 0 THEN A.sL ELSE A.sR
        keepTA == IF a = 0 THEN A.tL ELSE A.tR
        keepSB == IF a = 0 THEN B.sL ELSE B.sR
        keepTB == IF a = 0 THEN B.tL ELSE B.tR
    IN  [sA |-> IF st.tA = 1 THEN Xor(keepSA, sCW) ELSE keepSA,
         tA |-> (keepTA + st.tA * tCW) % 2,
         sB |-> IF st.tB = 1 THEN Xor(keepSB, sCW) ELSE keepSB,
         tB |-> (keepTB + st.tB * tCW) % 2,
         cw |-> Append(st.cw, [s |-> sCW, tL |-> tLCW, tR |-> tRCW])]

\* levels i .. logN-1 of Gen
RECURSIVE GenLevels(_, _, _, _, _)
GenLevels(key, st, alpha, logN, i) ==
    IF i = logN THEN st
    ELSE GenLevels(key, GenLevel(key, st, BitOf(alpha, i, logN)), alpha, logN, i + 1)

\* the final correction word without the sign of the final control bit
FinalCWUnsigned(st, beta) == VecAdd(VecSub(beta, Convert(st.sA)), Convert(st.sB))

\* finalCW = beta - convert(sA) + convert(sB), negated when party B's final
\* control bit is set
FinalCW(st, beta) ==
    LET d == VecAdd(VecSub(beta, Convert(st.sA)), Convert(st.sB))
    IN  IF st.tB = 1 THEN VecNeg(d) ELSE d

\* Gen(alpha, beta, logN) with the seeds it sampled: the keys <<kA, kB>>
Gen(key, sA, sB, alpha, beta, logN) ==
    LET st == GenLevels(key, [sA |-> sA, tA |-> 0, sB |-> sB, tB |-> 1, cw |-> <<>>],
                        alpha, logN, 0)
        fcw == FinalCW(st, beta)
    IN  <<[s |-> sA, t |-> 0, cw |-> st.cw, finalCW |-> fcw],
          [s |-> sB, t |-> 1, cw |-> st.cw, finalCW |-> fcw]>>

\* one level of Eval: expand, correct both children when the control bit is
\* set, and go left or right
EvalLevel(key, k, n, i, bit) ==
    LET E == PRG(key, n.s)
        c == k.cw[i + 1]
        sL == IF n.t = 1 THEN Xor(E.sL, c.s) ELSE E.sL
        tL == (E.tL + n.t * c.tL) % 2
        sR == IF n.t = 1 THEN Xor(E.sR, c.s) ELSE E.sR
        tR == (E.tR + n.t * c.tR) % 2
    IN  IF bit = 0 THEN [s |-> sL, t |-> tL] ELSE [s |-> sR, t |-> tR]

\* the node Eval reaches from n along bits i .. logN-1 of x
RECURSIVE EvalLevels(_, _, _, _, _, _)
EvalLevels(key, k, n, x, logN, i) ==
    IF i = logN THEN n
    ELSE EvalLevels(key, k, EvalLevel(key, k, n, i, BitOf(x, i, logN)), x, logN, i + 1)

\* Eval(k, x, logN, out): the converted leaf plus finalCW when the control bit
\* is set, negated for the party whose initial control bit is 1
Eval(key, k, x, logN) ==
    LET n == EvalLevels(key, k, [s |-> k.s, t |-> k.t], x, logN, 0)
        v == IF n.t = 1 THEN VecAdd(Convert(n.s), k.finalCW) ELSE Convert(n.s)
    IN  IF k.t = 1 THEN VecNeg(v) ELSE v

\* before TestEval
InitDPF(key) ==
    /\ prfKey = key
    /\ dpfCall = NoDPFCall
    /\ dpfKeys = NoKeys
    /\ dpfNext = 0
    /\ evalSums = {}
    /\ testFailed = FALSE
    /\ dpfErr = "none"

\* a, b := Gen(alpha, beta, logN); Gen panics on alpha >= 2^logN
TestGen(sA, sB, alpha, beta, logN) ==
    /\ dpfCall = NoDPFCall
    /\ dpfCall' = [alpha |-> alpha, beta |-> beta, logN |-> logN]
    /\ IF alpha >= Pow2(logN)
       THEN /\ dpfErr' = "panic: dpf: invalid parameters"
            /\ UNCHANGED dpfKeys
       ELSE /\ dpfKeys' = Gen(prfKey, sA, sB, alpha, beta, logN)
            /\ UNCHANGED dpfErr
    /\ UNCHANGED <<prfKey, dpfNext, evalSums, testFailed>>

\* one turn of the loop of TestEval: both keys are evaluated at i, the outputs
\* are added slot by slot and the sum is compared
TestEvalAt ==
    /\ dpfKeys # NoKeys
    /\ dpfNext < Pow2(dpfCall.logN)
    /\ LET i == dpfNext
           out0 == Eval(prfKey, dpfKeys[1], i, dpfCall.logN)
           out1 == Eval(prfKey, dpfKeys[2], i, dpfCall.logN)
           sum == VecAdd(out0, out1)
       IN  /\ evalSums' = evalSums \cup {[i |-> i, sum |-> sum]}
           /\ testFailed' = (testFailed
                               \/ (i # dpfCall.alpha /\ sum # VecZero)
                               \/ (i = dpfCall.alpha /\ sum # dpfCall.beta))
    /\ dpfNext' = dpfNext + 1
    /\ UNCHANGED <<prfKey, dpfCall, dpfKeys, dpfErr>>

----------------------------------------------------------------------------
(* The arithmetic of one slot of PredicateAPIR.Reconstruct: the sum of the two
   servers' entries and the tag expected for it *)

NoSlot == [a |-> -1, b |-> -1, alpha |-> -1]
NoSlotOut == [data |-> -1, tag |-> -1]

\* the sum of line 136 computed in a word one bit narrower than uint32
SlotDataNarrow(a, b) == ((a + b) % Pow2(UintBits - 1)) % ModP

\* data := (answers[0][0] + answers[1][0]) % field.ModP, line 136 (and 110,
\* 112, 119, 126, 143): the addition is a uint32 addition
SlotData(a, b) == U32(a + b) % ModP

\* tmp := (dataCasted * uint64(alpha)) % uint64(field.ModP); tag := uint32(tmp),
\* lines 137-142 (and 111-118, 124-125)
SlotTag(data, alpha) == U32(U64(U64(data) * U64(alpha)) % U64(ModP))

\* before any slot is reconstructed
InitArith ==
    /\ slotIn = NoSlot
    /\ slotOut = NoSlotOut

\* one slot is reconstructed from the entries a and b, under the secret alpha
ReconstructSlot(a, b, alpha) ==
    /\ slotIn = NoSlot
    /\ slotIn' = [a |-> a, b |-> b, alpha |-> alpha]
    /\ slotOut' = [data |-> SlotData(a, b), tag |-> SlotTag(SlotData(a, b), alpha)]

----------------------------------------------------------------------------
(* Two servers load the same keys, each in its own order, sort them with
   sortById and build the hash table with makeHashTable *)

\* most keys loaded
MaxLoaded == 3
\* largest key ID
MaxID == 2

KeyIDs == 1 .. MaxID
Packets == {<<1>>, <<2>>}
PGPKeys == [ID : KeyIDs, Packet : Packets]
Servers == {1, 2}

\* the key lists of length 1 .. MaxLoaded
KeyLists == UNION {Vectors(PGPKeys, n) : n \in 1 .. MaxLoaded}

\* the orders in which the keys of the list can be loaded
Orders(keys) ==
    {[i \in 1 .. Len(keys) |-> keys[f[i]]] :
        f \in {g \in [1 .. Len(keys) -> 1 .. Len(keys)] :
                  \A i, j \in 1 .. Len(keys) : i # j => g[i] # g[j]}}

\* pgp.HashToIndex(id, tableLen): a function of the ID alone, below tableLen
HashToIndex(id, tableLen) == id % tableLen

\* the less function of sortById, line 167: higher ID first
Less(x, y) == x.ID > y.ID

\* one pass of the insertion sort sort.Slice runs on a short slice: x moves
\* towards the front while it is less than the key before it
RECURSIVE InsertKey(_, _)
InsertKey(sorted, x) ==
    IF Len(sorted) = 0 \/ ~Less(x, sorted[Len(sorted)]) THEN Append(sorted, x)
    ELSE Append(InsertKey(SubSeq(sorted, 1, Len(sorted) - 1), x), sorted[Len(sorted)])

\* sortById, lines 165-169, on the first n keys
RECURSIVE SortFirst(_, _)
SortFirst(keys, n) ==
    IF n = 0 THEN <<>> ELSE InsertKey(SortFirst(keys, n - 1), keys[n])
sortById(keys) == SortFirst(keys, Len(keys))

\* the loop of makeHashTable, lines 139-143, over the first n keys
RECURSIVE HashFirst(_, _, _)
HashFirst(keys, n, tableLen) ==
    IF n = 0 THEN NoTable
    ELSE LET table == HashFirst(keys, n - 1, tableLen)
             hashKey == HashToIndex(keys[n].ID, tableLen)
             old == IF hashKey \in DOMAIN table THEN table[hashKey] ELSE <<>>
         IN  [k \in (DOMAIN table) \cup {hashKey} |->
                 IF k = hashKey THEN old \o keys[n].Packet ELSE table[k]]

\* makeHashTable, lines 135-146
makeHashTable(keys, tableLen) == HashFirst(keys, Len(keys), tableLen)

\* before the servers load the keys
InitServers ==
    /\ loaded = [s \in Servers |-> <<>>]
    /\ tableLenIn = 0
    /\ tables = [s \in Servers |-> NoTable]

\* lines 20-23 on both servers: the same keys, in any two orders
LoadKeysFromDisk(keys, order, tableLen) ==
    /\ tableLenIn = 0
    /\ loaded' = [s \in Servers |-> IF s = 1 THEN keys ELSE order]
    /\ tableLenIn' = tableLen
    /\ UNCHANGED tables

\* lines 27 and 35 on server s: sortById, then makeHashTable
BuildTable(s) ==
    /\ tableLenIn > 0
    /\ tables[s] = NoTable
    /\ tables' = [tables EXCEPT ![s] = makeHashTable(sortById(loaded[s]), tableLenIn)]
    /\ UNCHANGED <<loaded, tableLenIn>>

----------------------------------------------------------------------------
(* Manager.GetDBInfos: every server is asked for its database.Info and the
   infos are compared *)

\* the infos a server can publish: two values of every field
Infos ==
    [NumRows : {1, 2}, NumColumns : {1, 2}, BlockSize : {1, 2},
     PIRType : {"pir", "vpir"}, Root : {0, 1}, ProofLen : {0, 1}]

NoInfoRet == [infos |-> <<>>, err |-> "none"]
FatalInfo == "fatal: could not send database info request"
NotEqual == "db not equal"

\* the bijections of 1 .. n: the orders in which the n replies can arrive
Arrivals(n) ==
    {g \in [1 .. n -> 1 .. n] : \A i, j \in 1 .. n : i # j => g[i] # g[j]}

\* the check of lines 167-175: some info differs from the first in NumRows,
\* NumColumns or BlockSize
DBNotEqual(dbInfo) ==
    \E i \in 1 .. Len(dbInfo) :
        \/ dbInfo[1].NumRows # dbInfo[i].NumRows
        \/ dbInfo[1].NumColumns # dbInfo[i].NumColumns
        \/ dbInfo[1].BlockSize # dbInfo[i].BlockSize

\* before GetDBInfos
InitInfos ==
    /\ published = <<>>
    /\ infoRet = NoInfoRet

\* GetDBInfos, lines 143-182: the servers publish pub, the requests succeed or
\* one fails (log.Fatalf in queryDBInfo), and the replies arrive in some order
GetDBInfos(pub, arrival, ok) ==
    /\ infoRet = NoInfoRet
    /\ published' = pub
    /\ LET dbInfo == [i \in 1 .. Len(pub) |-> pub[arrival[i]]]
       IN  infoRet' =
               IF ~ok THEN [infos |-> <<>>, err |-> FatalInfo]
               ELSE IF DBNotEqual(dbInfo) THEN [infos |-> <<>>, err |-> NotEqual]
               ELSE IF Len(dbInfo) = 0 THEN [infos |-> <<>>, err |-> PanicIndex]
               ELSE [infos |-> dbInfo, err |-> "nil"]

InitExt == InitManager(0) /\ InitPad /\ InitGen /\ InitDPF(0) /\ InitArith /\ InitServers /\ InitInfos

----------------------------------------------------------------------------
(* Specifications *)

\* PredicateAPIR after NewPredicateAPIR
InitPredicateAPIR ==
    /\ state = NoState
    /\ query = NoQuery
    /\ truth = NoTruth
    /\ answers = NoAnswers
    /\ origin = "none"
    /\ flip = NoFlip
    /\ ret = NoRet
    /\ discarded = NoState

\* ITSingleGF after NewITSingleGF(xof, r)
InitITSingleGF(r) ==
    /\ rebalanced = r
    /\ gfState = NoGFState
    /\ call = NoCall
    /\ vectors = <<>>
    /\ gfAnswers = <<>>
    /\ gfOrigin = "none"
    /\ gfRet = NoRet
    /\ gfDiscarded = NoGFState

\* a process that constructed a PredicateAPIR client
Init ==
    /\ client = "PredicateAPIR"
    /\ InitPredicateAPIR
    /\ InitITSingleGF(FALSE)
    /\ db = NoDB
    /\ exited = FALSE
    /\ pending = 0
    /\ InitExt

\* the caller follows the protocol: one Query, the answers, one Reconstruct
Next ==
    \/ /\ ~exited /\ ~IsPending
       /\ \E kind \in Kinds, numServers \in 0 .. MaxServers,
             alphas \in Vectors(RandElementWithPRG, ConcurrentExecutions) :
             Query(kind, numServers, alphas)
       /\ UNCHANGED extVars
    \/ /\ ~exited /\ query # NoQuery /\ origin = "none"
       /\ \E cnt \in Field, sum \in (IF query.kind = "AVG" THEN Field ELSE {0}),
             mask \in Masks(query) : Answer(cnt, sum, mask)
       /\ UNCHANGED extVars
    \/ /\ ~exited /\ origin = "honest" /\ ret = NoRet
       /\ \E e \in 0 .. ConcurrentExecutions, b \in 0 .. (UintBits - 1) : Tamper(e, b)
       /\ UNCHANGED extVars
    \/ /\ ~exited /\ origin = "none"
       /\ \E ans \in Forged(query) : Forge(ans)
       /\ UNCHANGED extVars
    \/ /\ Reconstruct
       /\ UNCHANGED extVars

Spec == Init /\ [][Next]_vars

\* the single-bit databases
Databases == Vectors({0, 1}, DBLength)

\* the indices a caller passes: one below the range, the range, one above
Indices == -1 .. DBLength

\* a process that constructed an ITSingleGF client, flat or rebalanced
InitIT ==
    /\ client = "ITSingleGF"
    /\ InitPredicateAPIR
    /\ \E r \in BOOLEAN : InitITSingleGF(r)
    /\ db = NoDB
    /\ exited = FALSE
    /\ pending = 0
    /\ InitExt

\* one round of the single-bit scheme
NextIT ==
    \/ /\ ~exited /\ call = NoCall /\ gfAnswers = <<>>
       /\ \E index \in Indices, numServers \in 0 .. MaxServers, alpha \in GF :
             \E randomElements \in RandomVector(numServers, GFQueryState(index, alpha).dbLength) :
                GFQuery(index, numServers, alpha, randomElements)
       /\ UNCHANGED extVars
    \/ /\ ~exited /\ vectors # <<>>
       /\ \E d \in Databases : GFAnswer(d)
       /\ UNCHANGED extVars
    \/ /\ ~exited /\ gfOrigin = "none"
       /\ \E ans \in GFForged(IF call = NoCall THEN 1 ELSE call.numServers) : GFForge(ans)
       /\ UNCHANGED extVars
    \/ /\ GFReconstruct
       /\ UNCHANGED extVars

SpecIT == InitIT /\ [][NextIT]_vars

\* either client
InitRequery ==
    /\ client \in {"PredicateAPIR", "ITSingleGF"}
    /\ InitPredicateAPIR
    /\ \E r \in BOOLEAN : InitITSingleGF(IF client = "ITSingleGF" THEN r ELSE FALSE)
    /\ db = NoDB
    /\ exited = FALSE
    /\ pending = 0
    /\ InitExt

\* the caller may issue a Query while another is pending, and the answers to
\* the overwritten query may be the ones it reconstructs from
NextRequery ==
    \/ /\ ~exited /\ client = "PredicateAPIR"
       /\ \E numServers \in 0 .. MaxServers,
             alphas \in Vectors(RandElementWithPRG, ConcurrentExecutions) :
             Query("COUNT", numServers, alphas)
       /\ UNCHANGED extVars
    \/ /\ ~exited /\ query # NoQuery /\ origin = "none"
       /\ \E cnt \in Field, mask \in Masks(query) : Answer(cnt, 0, mask)
       /\ UNCHANGED extVars
    \/ /\ ~exited /\ ~discarded.nil /\ origin = "none"
       /\ \E cnt \in Field, mask \in Masks(query) : Stale(cnt, mask)
       /\ UNCHANGED extVars
    \/ /\ Reconstruct
       /\ UNCHANGED extVars
    \/ /\ ~exited /\ client = "ITSingleGF"
       /\ \E index \in Indices, alpha \in GF : GFQuery(index, 1, alpha, <<>>)
       /\ UNCHANGED extVars
    \/ /\ ~exited /\ vectors # <<>>
       /\ \E d \in (IF db = NoDB THEN Databases ELSE {db}) : GFAnswer(d)
       /\ UNCHANGED extVars
    \/ /\ ~exited /\ ~gfDiscarded.nil /\ gfOrigin = "none"
       /\ \E d \in (IF db = NoDB THEN Databases ELSE {db}) : GFStale(d)
       /\ UNCHANGED extVars
    \/ /\ GFReconstruct
       /\ UNCHANGED extVars

SpecRequery == InitRequery /\ [][NextRequery]_vars

\* a process that connected a Manager to its servers and built a PredicateAPIR
InitDispatch ==
    /\ client = "PredicateAPIR"
    /\ InitPredicateAPIR
    /\ InitITSingleGF(FALSE)
    /\ db = NoDB
    /\ exited = FALSE
    /\ pending = 0
    /\ \E n \in 0 .. MaxServers : InitManager(n)
    /\ InitPad
    /\ InitGen
    /\ InitDPF(0)
    /\ InitArith
    /\ InitServers
    /\ InitInfos

\* one GetKey: the servers' replies are fixed before the goroutines start
NextDispatch ==
    \/ /\ ~exited /\ main = "idle"
       /\ \E alphas \in Vectors(RandElementWithPRG, ConcurrentExecutions),
             malformed \in BOOLEAN : GetKeyQuery(alphas, malformed)
       /\ UNCHANGED notDisp
    \/ /\ ~exited /\ main = "dispatch" /\ origin = "none"
       /\ \E cnt \in Field, mask \in ManagerMasks : Answer(cnt, 0, mask)
       /\ UNCHANGED extVars
    \/ /\ ~exited /\ main = "dispatch" /\ origin = "honest"
       /\ \A j \in Goroutines : gor[j] = "idle"
       /\ \E e \in 0 .. ConcurrentExecutions, b \in 0 .. (UintBits - 1) : Tamper(e, b)
       /\ UNCHANGED extVars
    \/ /\ ~exited /\ origin # "none"
       /\ \E j \in Goroutines : Go(j)
       /\ UNCHANGED notDisp
    \/ /\ ~exited
       /\ \E j \in Goroutines, ok \in BOOLEAN : QueryServer(j, ok)
       /\ UNCHANGED notDisp
    \/ /\ ~exited
       /\ \E j \in Goroutines : Send(j)
       /\ UNCHANGED notDisp
    \/ /\ Wait
       /\ UNCHANGED notDisp
    \/ /\ ~exited /\ main = "drained"
       /\ \E found \in BOOLEAN, decoded \in BOOLEAN : GetKeyReconstruct(found, decoded)
       /\ UNCHANGED notDisp

SpecDispatch == InitDispatch /\ [][NextDispatch]_vars

\* a process that has built no client
InitNoClient ==
    /\ client = "none"
    /\ InitPredicateAPIR
    /\ InitITSingleGF(FALSE)
    /\ db = NoDB
    /\ exited = FALSE
    /\ pending = 0

\* a process about to pad or to unpad a block
InitPadding ==
    /\ InitNoClient
    /\ InitManager(0)
    /\ InitPad
    /\ InitGen
    /\ InitDPF(0)
    /\ InitArith
    /\ InitServers
    /\ InitInfos

\* a block is padded and unpadded, or a block received is unpadded
NextPad ==
    \/ /\ \E block \in ByteStrings(MaxBlock), blockLen \in 1 .. MaxBlockLen :
             Pad(block, blockLen)
       /\ UNCHANGED notPad
    \/ /\ UnPad
       /\ UNCHANGED notPad
    \/ /\ \E block \in ByteStrings(MaxBlock) : UnPadRaw(block)
       /\ UNCHANGED notPad

SpecPad == InitPadding /\ [][NextPad]_vars

\* a server about to generate its database
InitGenerate ==
    /\ InitNoClient
    /\ InitManager(0)
    /\ InitPad
    /\ InitGen
    /\ InitDPF(0)
    /\ InitArith
    /\ InitServers
    /\ InitInfos

\* GenerateRealKeyDB, the buckets embedded in the order the map yields them
NextGenerate ==
    \/ /\ \E n \in 1 .. MaxKeys, r \in BOOLEAN, eLen \in 1 .. MaxElementLength :
             SizeTable(n, r, eLen)
       /\ UNCHANGED notGen
    \/ /\ numBlocks >= 0 /\ tableBlockLen = 0 /\ genErr = "none"
       /\ \E table \in (IF numBlocks > 0 THEN HashTables(numBlocks) ELSE {NoTable}) :
             MakeHashTable(table)
       /\ UNCHANGED notGen
    \/ /\ tableBlockLen > 0 /\ genErr = "none"
       /\ \E k \in DOMAIN ht : Embed(k)
       /\ UNCHANGED notGen

SpecGenerate == InitGenerate /\ [][NextGenerate]_vars

\* a test process of the dpf package, under any fixed key
InitTestEval ==
    /\ InitNoClient
    /\ InitManager(0)
    /\ InitPad
    /\ InitGen
    /\ \E key \in Seed : InitDPF(key)
    /\ InitArith
    /\ InitServers
    /\ InitInfos

\* TestEval with any seeds, any alpha, beta and logN
NextTestEval ==
    \/ /\ \E sA \in Seed, sB \in Seed, logN \in 1 .. MaxLogN, beta \in Betas :
             \E alpha \in 0 .. (Pow2(MaxLogN) - 1) : TestGen(sA, sB, alpha, beta, logN)
       /\ UNCHANGED notDPF
    \/ /\ TestEvalAt
       /\ UNCHANGED notDPF

SpecTestEval == InitTestEval /\ [][NextTestEval]_vars

\* a client about to reconstruct one slot
InitSlot ==
    /\ InitNoClient
    /\ InitManager(0)
    /\ InitPad
    /\ InitGen
    /\ InitDPF(0)
    /\ InitArith
    /\ InitServers
    /\ InitInfos

\* the servers' entries are any uint32, the alpha is a field element
NextSlot ==
    /\ \E a \in Word, b \in Word, alpha \in Field : ReconstructSlot(a, b, alpha)
    /\ UNCHANGED notArith

SpecSlot == InitSlot /\ [][NextSlot]_vars

\* two servers about to load the keys
InitTwoServers ==
    /\ InitNoClient
    /\ InitManager(0)
    /\ InitPad
    /\ InitGen
    /\ InitDPF(0)
    /\ InitArith
    /\ InitServers
    /\ InitInfos

\* the servers load the same keys and each builds its table
NextTwoServers ==
    \/ /\ \E keys \in KeyLists, tableLen \in 1 .. MaxID :
             \E order \in Orders(keys) : LoadKeysFromDisk(keys, order, tableLen)
       /\ UNCHANGED notSort
    \/ /\ \E s \in Servers : BuildTable(s)
       /\ UNCHANGED notSort

SpecTwoServers == InitTwoServers /\ [][NextTwoServers]_vars

\* a Manager about to ask its servers for their infos
InitGetDBInfos ==
    /\ InitNoClient
    /\ InitManager(0)
    /\ InitPad
    /\ InitGen
    /\ InitDPF(0)
    /\ InitArith
    /\ InitServers
    /\ InitInfos

\* one GetDBInfos on a Manager with 0 .. MaxServers connections; a request can
\* fail only if there is a connection
NextGetDBInfos ==
    /\ \E n \in 0 .. MaxServers :
          \E pub \in Vectors(Infos, n), arrival \in Arrivals(n), ok \in BOOLEAN :
             (ok \/ n > 0) /\ GetDBInfos(pub, arrival, ok)
    /\ UNCHANGED notInfo

SpecGetDBInfos == InitGetDBInfos /\ [][NextGetDBInfos]_vars

\* most connections of the Manager that runs the queries
MaxConnections == 3

\* a Manager connected to 0 .. MaxConnections servers, about to run queries
InitRunQueries ==
    /\ InitNoClient
    /\ \E n \in 0 .. MaxConnections : InitManager(n)
    /\ InitPad
    /\ InitGen
    /\ InitDPF(0)
    /\ InitArith
    /\ InitServers
    /\ InitInfos

\* the steps of the process between two scheduling points
RunQueriesCall == (\E nq \in 0 .. MaxConnections : RunQueries(nq)) /\ UNCHANGED notDisp
GoStep(j) == Go(j) /\ UNCHANGED notDisp
QueryServerStep(j) == (\E ok \in BOOLEAN : QueryServer(j, ok)) /\ UNCHANGED notDisp
SendStep(j) == Send(j) /\ UNCHANGED notDisp
WaitStep == Wait /\ UNCHANGED notDisp
ReturnStep == RunQueriesReturn /\ UNCHANGED notDisp

\* one RunQueries under every interleaving of its goroutines
NextRunQueries ==
    \/ RunQueriesCall
    \/ \E j \in Goroutines : GoStep(j)
    \/ \E j \in Goroutines : QueryServerStep(j)
    \/ \E j \in Goroutines : SendStep(j)
    \/ WaitStep
    \/ ReturnStep

\* the scheduler runs every goroutine that can take a step, and every request
\* to a server returns
FairRunQueries ==
    /\ \A j \in 0 .. (MaxConnections - 1) :
          /\ WF_vars(GoStep(j))
          /\ WF_vars(QueryServerStep(j))
          /\ WF_vars(SendStep(j))
    /\ WF_vars(WaitStep)
    /\ WF_vars(ReturnStep)

SpecRunQueries == InitRunQueries /\ [][NextRunQueries]_vars /\ FairRunQueries

\* a PredicateAPIR client whose servers send vectors of any length
NextServerAnswers ==
    \/ /\ ~exited /\ ~IsPending
       /\ \E kind \in Kinds, numServers \in 0 .. MaxServers,
             alphas \in Vectors(RandElementWithPRG, ConcurrentExecutions) :
             Query(kind, numServers, alphas)
       /\ UNCHANGED extVars
    \/ /\ ~exited /\ query # NoQuery /\ origin = "none"
       /\ \E ans \in ServerAnswers : Forge(ans)
       /\ UNCHANGED extVars
    \/ /\ Reconstruct
       /\ UNCHANGED extVars

SpecServerAnswers == Init /\ [][NextServerAnswers]_vars

----------------------------------------------------------------------------
(* Properties of PredicateAPIR *)

\* Reconstruct has returned (or panicked) on the answers held in the state
Returned == ret # NoRet /\ ret.err # Fatal

\* the mathematical sum mod p of slot s (0-based) of the two answers
Slot(s) == (At(answers[1], s) + At(answers[2], s)) % ModP

\* slots first+1 .. first+k carry the tags of slot first under the alphas of st
TagsHold(st, first) ==
    \A i \in 1 .. ConcurrentExecutions :
        Slot(first + i) = (Slot(first) * st.alphas[i]) % ModP

\* both answers are vectors of n field elements
FieldAnswers(n) ==
    /\ answers # NoAnswers
    /\ \A j \in 1 .. 2 : Len(answers[j]) = n /\ \A s \in 1 .. n : answers[j][s] \in Field

IsReject(r) == r.err \in {"REJECT", "REJECT count", "REJECT sum"}

\* C1: on answers of 1+k field elements each and the alphas stored by the
\* preceding Query, Reconstruct returns the sum of the data slots without error
\* when every reconstructed tag i equals data * alpha_i mod p, and REJECT with
\* value 0 otherwise; honest shares of (d, d*alpha_1, ..) reconstruct to d.
C1_ReconstructAcceptsIffTagsHold ==
    (Returned /\ ~state.nil /\ FieldAnswers(1 + ConcurrentExecutions)) =>
        /\ TagsHold(state, 0) => ret = Value(Slot(0))
        /\ ~TagsHold(state, 0) => ret = Failure("REJECT")
        /\ origin = "honest" => ret = Value(truth.cnt)

\* the COUNT scenario: one matching row, MAC passes, data = 1
C1_Witness ==
    /\ Returned /\ origin = "honest" /\ query.kind = "COUNT"
    /\ truth.cnt = 1 /\ ret = Value(1)
    /\ \A i \in 1 .. ConcurrentExecutions : state.alphas[i] # 0
    /\ \E s \in 1 .. Len(answers[1]) : answers[1][s] # 0 /\ answers[2][s] # 0

\* C2 as stated: one flipped bit in server 0's answer is rejected whatever the
\* alphas, the data and the bit.
C2_AnyFlipRejected ==
    (Returned /\ origin = "flipped") => IsReject(ret)

\* C2 amended: a flipped bit in a MAC slot is always rejected; a flipped bit
\* in the data slot is rejected exactly when some alpha is not 0.
C2_FlipRejectedUnlessAlphasZero ==
    (Returned /\ origin = "flipped") =>
        (IsReject(ret) <=>
            \/ flip.entry >= 1
            \/ \E i \in 1 .. ConcurrentExecutions : state.alphas[i] # 0)

\* a flip of the top bit of the data slot that wraps the uint32 sum, rejected
C2_Witness ==
    /\ Returned /\ origin = "flipped" /\ query.kind = "COUNT"
    /\ flip.entry = 0 /\ flip.bit = UintBits - 1
    /\ answers[1][1] + answers[2][1] >= Pow2(UintBits)
    /\ ret = Failure("REJECT")

\* C3 as stated: in the AVG case, when every tag passes and the count is 0,
\* Reconstruct returns a NoMatch error.
C3_ZeroCountIsNoMatch ==
    ( /\ Returned /\ ~state.nil /\ FieldAnswers(2 * (1 + ConcurrentExecutions))
      /\ TagsHold(state, 0) /\ TagsHold(state, 1 + ConcurrentExecutions)
      /\ Slot(0) = 0 )
    => ret.err = "NoMatch"

\* C4: in the AVG case a value is returned only if all count tags and all sum
\* tags hold, and it is sum/count of the slot-0 values; when only count tags
\* fail the error is REJECT count, when only sum tags fail it is REJECT sum.
C4_AvgRejectsByHalf ==
    (Returned /\ ~state.nil /\ FieldAnswers(2 * (1 + ConcurrentExecutions))) =>
        LET countOk == TagsHold(state, 0)
            sumOk == TagsHold(state, 1 + ConcurrentExecutions)
        IN  /\ ret.err = "nil" =>
                /\ countOk /\ sumOk /\ Slot(0) # 0
                /\ ret.val = Slot(1 + ConcurrentExecutions) \div Slot(0)
            /\ (~countOk /\ sumOk) => ret = Failure("REJECT count")
            /\ (countOk /\ ~sumOk) => ret = Failure("REJECT sum")

\* only the second sum tag fails
C4_Witness ==
    /\ Returned /\ ~state.nil /\ FieldAnswers(2 * (1 + ConcurrentExecutions))
    /\ TagsHold(state, 0)
    /\ Slot(1 + ConcurrentExecutions + 1)
           = (Slot(1 + ConcurrentExecutions) * state.alphas[1]) % ModP
    /\ ~TagsHold(state, 1 + ConcurrentExecutions)
    /\ ret = Failure("REJECT sum")

\* C5: two Query calls without a Reconstruct in between leave only the state
\* of the second; the Reconstruct that follows accepts exactly the answers
\* whose tags hold under the alphas of the second Query (one sum per position
\* in {0, alpha} of the second Query for ITSingleGF), and rejects the answers
\* to the overwritten query when they are valid only under its own values.
C5_SecondQueryOverwrites ==
    /\ (client = "PredicateAPIR" /\ pending = 2) =>
          /\ state = QueryState(Tail(query.a))
          /\ (Returned /\ FieldAnswers(1 + ConcurrentExecutions)) =>
                /\ ret.err = "nil" <=> TagsHold([alphas |-> Tail(query.a)], 0)
                /\ ~TagsHold([alphas |-> Tail(query.a)], 0) => ret = Failure("REJECT")
    /\ (client = "ITSingleGF" /\ pending = 2) =>
          /\ gfState = GFQueryState(call.index, call.alpha)
          /\ (gfRet # NoRet /\ ~IsPanic(gfRet) /\ gfAnswers # <<>>) =>
                (gfRet.err = "REJECT!" <=>
                    \E i \in 1 .. Len(gfAnswers[1]) :
                        SumAll([t \in 1 .. Len(gfAnswers) |-> gfAnswers[t][i]])
                            \notin {Zero, call.alpha})

\* the answers to the first query, valid under its alphas only, are rejected
C5_Witness ==
    /\ client = "PredicateAPIR" /\ pending = 2 /\ Returned /\ origin = "stale"
    /\ TagsHold(discarded, 0) /\ ~TagsHold(state, 0)
    /\ discarded.alphas # state.alphas
    /\ ret = Failure("REJECT")

\* C6 as stated: Reconstruct consumes the state that Query created, so none is
\* left once it has returned a value or a Reject.
C6_ReconstructConsumesState ==
    (Returned /\ ~IsPanic(ret)) => state.nil

----------------------------------------------------------------------------
(* Properties of ITSingleGF *)

\* the last call was a Query with an index in range for at least one server
ValidCall == call # NoCall /\ call.index \in 0 .. (DBLength - 1) /\ call.numServers >= 1

\* ITSingleGF.Reconstruct has returned (or panicked) on gfAnswers
GFReturned == gfAnswers # <<>> /\ gfRet # NoRet

\* the field sum over the servers of position i (0-based) of the answers
GFSlot(i) == SumAll([t \in 1 .. Len(gfAnswers) |-> At(gfAnswers[t], i)])

\* C7: for an index in range and numServers >= 1, Query returns numServers
\* vectors of length dbLength (DBLength flat, its square root rebalanced) whose
\* field sum is the sampled alpha at ix (index flat, index mod the square root
\* rebalanced) and 0 elsewhere.
C7_SharesSumToAlphaAtIndex ==
    (ValidCall /\ vectors # <<>>) =>
        LET dbLength == IF rebalanced THEN IntSqrt(DBLength) ELSE DBLength
            ix == IF rebalanced THEN call.index % IntSqrt(DBLength) ELSE call.index
        IN  /\ Len(vectors) = call.numServers
            /\ \A k \in 1 .. Len(vectors) : Len(vectors[k]) = dbLength
            /\ \A i \in 0 .. (dbLength - 1) :
                  SumAll([k \in 1 .. Len(vectors) |-> At(vectors[k], i)])
                      = IF i = ix THEN call.alpha ELSE Zero

\* two servers, rebalanced, the last index, shares that are not trivial
C7_Witness ==
    /\ ValidCall /\ vectors # <<>> /\ rebalanced
    /\ call.numServers = 2 /\ call.index = DBLength - 1 /\ call.alpha # Zero
    /\ \A i \in 1 .. Len(vectors[1]) : vectors[1][i] # Zero /\ vectors[2][i] # Zero

C9_HonestRunReturnsBit ==
    (GFReturned /\ gfOrigin = "honest" /\ ValidCall) =>
        gfRet = Value(IF db[call.index + 1] = 1 THEN One ELSE Zero)

\* C10 as stated: Query with an index out of range and numServers >= 1 panics
\* with invalid query inputs and returns no query vectors.
C10_OutOfRangeIndexPanics ==
    ( /\ call # NoCall /\ call.numServers >= 1
      /\ call.index \notin 0 .. (DBLength - 1)
      /\ gfAnswers = <<>> )
    => (gfRet = Failure(PanicInvalid) /\ vectors = <<>>)

\* C11 as stated: Query with numServers < 1 and an index in range is refused
\* with the invalid query inputs panic, before any client state is set.
C11_TooFewServersPanicsInvalid ==
    ( /\ call # NoCall /\ call.numServers < 1
      /\ call.index \in 0 .. (DBLength - 1) )
    => (gfRet = Failure(PanicInvalid) /\ gfState.nil)

\* the vectors server s (1-based) can receive from Query(index, numServers) of
\* a client built with rebalanced = r, over every alpha and every choice of
\* the random elements
ServerViews ==
    [r \in BOOLEAN |-> [numServers \in 2 .. MaxServers |->
        [index \in 0 .. (DBLength - 1) |-> [s \in 1 .. numServers |->
            {secretSharing(QueryStateFor(r, index, alpha), numServers, randomElements)[s] :
                alpha \in GF,
                randomElements \in
                    RandomVector(numServers, QueryStateFor(r, index, Zero).dbLength)}]]]]

\* C12: for numServers >= 2, the set of vectors a single server can receive is
\* the same for every two valid indices, and the vector it received from the
\* Query of this run is one it can receive for every other valid index.
C12_ServerViewIndependentOfIndex ==
    /\ \A r \in BOOLEAN : \A numServers \in 2 .. MaxServers : \A s \in 1 .. numServers :
          \A i, other \in 0 .. (DBLength - 1) :
              ServerViews[r][numServers][i][s] = ServerViews[r][numServers][other][s]
    /\ (ValidCall /\ vectors # <<>> /\ call.numServers >= 2) =>
          \A s \in 1 .. call.numServers : \A other \in 0 .. (DBLength - 1) :
              vectors[s] \in ServerViews[rebalanced][call.numServers][other][s]

\* the last server holds a vector that is not zero away from the index
C12_Witness ==
    /\ ValidCall /\ vectors # <<>> /\ call.numServers = 2 /\ ~rebalanced
    /\ call.index = 1 /\ call.alpha # Zero
    /\ vectors[2][1] # Zero /\ vectors[2][2] = Zero /\ vectors[1][2] # Zero

----------------------------------------------------------------------------
(* Properties of the Manager *)

\* the answers have been assembled from the channel
Assembled == main = "drained" \/ (main = "returned" /\ query # NoQuery)

\* C13 as stated: whatever the order in which the replies complete, the
\* assembled answer vector has at position j the answer to queries[j].
C13_AnswersInQueryOrder ==
    Assembled => \A i \in 1 .. Len(handed) : handed[i] = i - 1

\* C14: an answer vector exists only once every one of the n goroutines has
\* sent its reply, and it has the n replies; after a transport error the
\* process is gone: no vector is assembled and Reconstruct is never called.
C14_AllOrNothing ==
    /\ (Assembled \/ Returned) =>
          /\ Len(handed) = conns
          /\ requests = conns
          /\ \A j \in Goroutines : gor[j] = "done" /\ \E i \in 1 .. Len(handed) : handed[i] = j
    /\ (\E j \in Goroutines : gor[j] = "failed") =>
          /\ exited /\ ~Assembled
          /\ handed = <<>> /\ ret = NoRet /\ result = "none"

\* two servers, the second replying first, and a key returned
C14_Witness ==
    /\ main = "returned" /\ conns = 2 /\ handed = <<1, 0>> /\ requests = 2
    /\ result = "key" /\ ret.err = "nil"

C16_RejectSurfacedAndTerminal ==
    /\ [](IsReject(ret) => (result = "error" /\ main = "returned"))
    /\ [][IsReject(ret) => (requests' = requests /\ result' = "error")]_vars

\* server 0 flipped a bit, the replies arrived out of order, GetKey failed
C16_Witness ==
    /\ IsReject(ret) /\ origin = "flipped" /\ conns = 2 /\ handed = <<1, 0>>
    /\ result = "error" /\ requests = 2

----------------------------------------------------------------------------
(* Properties of the database code *)

\* C17: for every byte string b and every block length n >= 1,
\* UnPadBlock(PadBlock(b, n)) = b, and the length of PadBlock(b, n) is a
\* positive multiple of n.
C17_PadRoundTrip ==
    /\ (padOut # NoBlock /\ padIn.blockLen >= 1) =>
          /\ Len(padOut) > 0
          /\ Len(padOut) % padIn.blockLen = 0
    /\ (unpadOut.err # "none" /\ padIn.blockLen >= 1) =>
          (unpadOut.err = "nil" /\ unpadOut.val = padIn.block)

\* a block ending in C2, which forms one rune with the 0x80 of the padding,
\* padded by a whole block of zeros
C17_Witness ==
    /\ unpadOut.err = "nil" /\ padIn.blockLen = 2
    /\ padIn.block = <<0, 128, 194>>
    /\ padOut = <<0, 128, 194, 128, 0, 0>>
    /\ unpadOut.val = <<0, 128, 194>>

\* C18 as stated: embedding bucket k sets only entries with index in
\* [k*blockLen, (k+1)*blockLen).
C18_BucketWritesOwnBlock ==
    \A w \in written :
        w.entry \in (w.bucket * tableBlockLen) .. ((w.bucket + 1) * tableBlockLen - 1)

\* C19 as stated: the table length is ceil(0.1 * n) in the flat layout and the
\* smallest perfect square at or above it in the rebalanced layout, at least 1.
C19_TableLengthIsCeiling ==
    numBlocks >= 0 =>
        LET c == CeilDiv(numKeys, KeysPerBlock)
        IN  /\ numBlocks >= 1
            /\ ~dbRebalanced => numBlocks = c
            /\ dbRebalanced =>
                  \E q \in 1 .. c : /\ numBlocks = q * q
                                    /\ q * q >= c
                                    /\ (q - 1) * (q - 1) < c

----------------------------------------------------------------------------
(* Properties of the distributed point function *)

----------------------------------------------------------------------------
(* Properties of the slot arithmetic *)

----------------------------------------------------------------------------
(* Properties of the servers' hash tables *)

\* C22: whatever the keys and whatever the order in which each server loaded
\* them, once both servers have built their table the two tables are the
\* same, bucket by bucket
C22_ServersBuildSameTable ==
    (\A s \in Servers : tables[s] # NoTable) => tables[1] = tables[2]

----------------------------------------------------------------------------
(* Properties of Manager.GetDBInfos *)

\* C23: GetDBInfos returns the infos only if the infos all the servers
\* published are equal in every field, and if two servers published infos that
\* differ in some field it returns an error and no infos
C23_InfosReturnedOnlyIfAllEqual ==
    infoRet # NoInfoRet =>
        LET differ == \E i, j \in 1 .. Len(published) : published[i] # published[j]
        IN  /\ infoRet.err = "nil" => ~differ
            /\ differ => (infoRet.err # "nil" /\ infoRet.infos = <<>>)

----------------------------------------------------------------------------
(* Properties of Manager.RunQueries *)

\* resCh has been closed
Closed == main \in {"drained", "returned"}

\* C24 as stated: the sends never exceed the buffer of the channel, the channel
\* is closed only once all n goroutines have sent, and a RunQueries whose
\* requests all return an answer eventually returns exactly n answers.
C24_RunQueriesTerminates ==
    /\ [](Len(resCh) <= conns)
    /\ [](Closed => \A j \in Goroutines : gor[j] = "done")
    /\ (main \in {"dispatch", "wait"}) ~>
          \/ main = "returned" /\ Len(handed) = conns
          \/ \E j \in Goroutines : gor[j] = "failed"

----------------------------------------------------------------------------
(* Properties of Reconstruct on the answers of the servers *)

\* C25 as stated: after a Query, whatever the lengths of the two vectors the
\* servers sent, Reconstruct returns a value or an error and never fails with
\* an access out of range
C25_ReconstructTotal ==
    (origin = "forged" /\ ~state.nil /\ ret # NoRet) =>
        ret.err \notin {PanicIndex, PanicRange}

----------------------------------------------------------------------------
(* Properties of the layout of the hash-table database *)

\* the database has been created
Created == tableBlockLen > 0

\* C26: once the database is created, NumRows * NumColumns is the table length
\* used by makeHashTable (one row of T columns when flat, a square of side
\* NumRows with NumRows^2 = T when rebalanced), so the bucket the client
\* computes for an ID from NumRows * NumColumns is the bucket of makeHashTable
C26_LayoutMatchesTable ==
    Created =>
        /\ numRows * numColumns = numBlocks
        /\ ~dbRebalanced => (numRows = 1 /\ numColumns = numBlocks)
        /\ dbRebalanced => (numRows = numColumns /\ numRows * numRows = numBlocks)
        /\ \A id \in KeyIDs :
              HashToIndex(id, numRows * numColumns) = HashToIndex(id, numBlocks)

\* twenty keys in the rebalanced layout: the table length 2 raised to 4 and a
\* database of 2 rows and 2 columns created
C26_Witness ==
    /\ Created /\ numKeys = 20 /\ dbRebalanced
    /\ numBlocks = 4 /\ numRows = 2 /\ numColumns = 2

====
